---- MODULE Spec2Model ----
(***************************************************************************)
(* Model of laroux.py: LarouxCache, an LRU cache made of a dict            *)
(* (_hash_table: key -> value) and a circular doubly linked list with a    *)
(* sentinel (_LarouxCacheList), plus the facade's own _length counter.     *)
(*                                                                         *)
(* The list is modelled as a heap of node slots with explicit prev/next    *)
(* references.  Slot head is the sentinel.  A slot that no reference       *)
(* reaches any more (a node unlinked by remove() or pop()) is garbage in   *)
(* Python; the model returns such a slot to the free pool with all fields  *)
(* None so that it can be allocated again.                                 *)
(***************************************************************************)
EXTENDS Integers, Sequences, FiniteSets

\* ---------------------------------------------------------------- bounds
MaxCap     == 2     \* capacities passed to __init__ / resize are 0..MaxCap
MaxNodes   == 4     \* node slots of the heap (besides the sentinel)
MaxListLen == 5     \* cap on _LarouxCacheList._length, which pop() never lowers

\* Keys and values are Python integers, so a key can equal a value (find
\* compares both with the needle).  0 is the falsy value.
Keys   == 1..3
Values == 0..1

\* A key that cannot be hashed, such as a list: dir(key) names __hash__ (it is
\* None there), so the test of push passes and the dict store raises TypeError.
ListKey == 9
Hashable(k) == k # ListKey
HasHashAttr(k) == TRUE

\* Python's None (a reference to nothing, the miss result of dict.get).
None == -1
\* The sentinel node self.head of _LarouxCacheList.
head == 0

Slots == 1..MaxNodes
Nodes == {head} \cup Slots

VARIABLES
    max_size,     \* LarouxCache._max_size
    hash_table,   \* LarouxCache._hash_table: function from the stored keys to values
    cache_list,   \* LarouxCache._cache_list: [key, value, prev, next: Nodes -> ..., length]
    length,       \* LarouxCache._length
    pc,           \* "idle" between calls, "resize" inside resize()'s while loop
    lastCall,     \* history: the latest public call, its arguments and result
    capOk,        \* history: every capacity given so far (__init__, resize) was >= 1
    resized,      \* history: resize has been called
    puts          \* history: [ok, seq]; seq is the (key, value) pairs put so far
                  \* while ok: the calls so far were puts of pairwise distinct
                  \* keys (and peeks); ok is FALSE and seq empty afterwards

vars == <<max_size, hash_table, cache_list, length, pc, lastCall, capOk, resized,
          puts>>

\* ------------------------------------------------------------ dict helpers
\* dict[key] = value
DictSet(d, k, v) == [x \in (DOMAIN d) \cup {k} |-> IF x = k THEN v ELSE d[x]]
\* dict.pop(key, default): no error when the key is missing
DictPop(d, k) == [x \in (DOMAIN d) \ {k} |-> d[x]]
\* dict.get(key, None)
DictGet(d, k) == IF k \in DOMAIN d THEN d[k] ELSE None

\* Python truthiness of a value or reference: None and 0 are falsy.
\* A faulty truth test that takes None for true; AbsentGetNoEffect fails with it.
TruthyNotZero(x) == x # 0
Truthy(x) == x # None /\ x # 0

\* ------------------------------------------------------- _LarouxCacheList
\* _LarouxCacheList.__init__: the sentinel points at itself, length 0.
EmptyList ==
    [key    |-> [n \in Nodes |-> None],
     value  |-> [n \in Nodes |-> None],
     prev   |-> [n \in Nodes |-> IF n = head THEN head ELSE None],
     next   |-> [n \in Nodes |-> IF n = head THEN head ELSE None],
     length |-> 0]

\* Slots holding no node: candidates for _ListNode(key, value).
FreeSlots(L) == {n \in Slots : L.next[n] = None /\ L.prev[n] = None}

NewNode(L) == CHOOSE n \in FreeSlots(L) : \A m \in FreeSlots(L) : n <= m

\* _LarouxCacheList.__len__
ListLen(L) == L.length

\* _LarouxCacheList.peek: the node after the sentinel (the sentinel when empty).
ListPeek(L) == L.next[head]

\* A faulty push that links the new node before the sentinel (at the back);
\* PutThenPeek fails with it.
ListPushBack(L, k, v) ==
    LET node  == NewNode(L)
        old   == L.prev[head]
        next1 == [L.next EXCEPT ![node] = head]
        prev1 == [L.prev EXCEPT ![node] = old]
        next2 == [next1 EXCEPT ![old] = node]
        prev2 == [prev1 EXCEPT ![head] = node]
    IN  [key    |-> [L.key EXCEPT ![node] = k],
         value  |-> [L.value EXCEPT ![node] = v],
         prev   |-> prev2,
         next   |-> next2,
         length |-> L.length + 1]

\* A faulty push that leaves out self.head.next.prev = node; ListWellFormed
\* fails with it.
ListPushNoBackLink(L, k, v) ==
    LET node  == NewNode(L)
        prev1 == [L.prev EXCEPT ![node] = head]
        next1 == [L.next EXCEPT ![node] = L.next[head]]
        next2 == [next1 EXCEPT ![head] = node]
    IN  [key    |-> [L.key EXCEPT ![node] = k],
         value  |-> [L.value EXCEPT ![node] = v],
         prev   |-> prev1,
         next   |-> next2,
         length |-> L.length + 1]

\* _LarouxCacheList.push: a new node linked right after the sentinel.
ListPush(L, k, v) ==
    LET node  == NewNode(L)
        prev1 == [L.prev EXCEPT ![node] = head]            \* node.prev = self.head
        next1 == [L.next EXCEPT ![node] = L.next[head]]    \* node.next = self.head.next
        prev2 == [prev1 EXCEPT ![next1[head]] = node]      \* self.head.next.prev = node
        next2 == [next1 EXCEPT ![head] = node]             \* self.head.next = node
    IN  [key    |-> [L.key EXCEPT ![node] = k],
         value  |-> [L.value EXCEPT ![node] = v],
         prev   |-> prev2,
         next   |-> next2,
         length |-> L.length + 1]                          \* self._length += 1

\* _LarouxCacheList.find: the first node from the front whose value equals the
\* needle (when value_search) or else whose key equals the needle; None if the
\* walk comes back to the sentinel.
RECURSIVE FindFrom(_, _, _, _)
FindFrom(L, here, needle, value_search) ==
    IF here = head THEN None
    ELSE IF value_search /\ L.value[here] = needle THEN here
    ELSE IF L.key[here] = needle THEN here
    ELSE FindFrom(L, L.next[here], needle, value_search)

ListFind(L, needle, value_search) == FindFrom(L, L.next[head], needle, value_search)

\* _LarouxCacheList.remove: unlink the node, clear its links, length - 1;
\* nothing when the node is None.  The unlinked node is garbage afterwards.
ListRemove(L, node) ==
    IF node # None
    THEN LET previous  == L.prev[node]
             following == L.next[node]
             next1 == [L.next EXCEPT ![previous] = following]
             prev1 == [L.prev EXCEPT ![following] = previous]
         IN  [key    |-> [L.key EXCEPT ![node] = None],
              value  |-> [L.value EXCEPT ![node] = None],
              prev   |-> [prev1 EXCEPT ![node] = None],
              next   |-> [next1 EXCEPT ![node] = None],
              length |-> L.length - 1]
    ELSE L

\* _LarouxCacheList.pop: unlink the node before the sentinel.  The length
\* counter is not touched.  On an empty list the sentinel is relinked to
\* itself.  The unlinked node is garbage afterwards.
ListPop(L) ==
    LET victim == L.prev[head]
        last   == L.prev[victim]
        next1  == [L.next EXCEPT ![last] = head]
        prev1  == [L.prev EXCEPT ![head] = last]
    IN  IF victim = head
        THEN [L EXCEPT !.next = next1, !.prev = prev1]
        ELSE [key    |-> [L.key EXCEPT ![victim] = None],
              value  |-> [L.value EXCEPT ![victim] = None],
              prev   |-> [prev1 EXCEPT ![victim] = None],
              next   |-> [next1 EXCEPT ![victim] = None],
              length |-> L.length]

\* _ListIterator / arrayize: the nodes from the front to the back.
RECURSIVE WalkFrom(_, _)
WalkFrom(L, here) ==
    IF here = head THEN <<>> ELSE <<here>> \o WalkFrom(L, L.next[here])

ListNodes(L) == WalkFrom(L, L.next[head])

\* The (key, value) entries from most to least recently used.
Entries(L) == [i \in 1..Len(ListNodes(L)) |->
                 <<L.key[ListNodes(L)[i]], L.value[ListNodes(L)[i]]>>]

\* Node references are opaque in the program: nothing depends on which object a
\* node is, only on how the nodes refer to each other.  States are therefore
\* kept up to a renaming of the references: after each call the linked nodes
\* are numbered 1, 2, ... from the front, the other slots keep their order.
\* The renaming is a bijection on the slots applied to every prev/next
\* reference, so the linked structure is kept exactly as the call left it.
RECURSIVE SortedSeq(_)
SortedSeq(S) ==
    IF S = {} THEN <<>>
    ELSE LET m == CHOOSE x \in S : \A y \in S : x <= y
         IN  <<m>> \o SortedSeq(S \ {m})

Range(f) == {f[i] : i \in DOMAIN f}

\* The slots in their new order: the linked nodes from the front, then the rest.
SlotOrder(L) == ListNodes(L) \o SortedSeq(Slots \ Range(ListNodes(L)))

RenumberBy(L, order) ==
    LET ren(r) == IF r = None \/ r = head THEN r
                  ELSE CHOOSE i \in Slots : order[i] = r
        old(n) == IF n = head THEN head ELSE order[n]
    IN  [key    |-> [n \in Nodes |-> L.key[old(n)]],
         value  |-> [n \in Nodes |-> L.value[old(n)]],
         prev   |-> [n \in Nodes |-> ren(L.prev[old(n)])],
         next   |-> [n \in Nodes |-> ren(L.next[old(n)])],
         length |-> L.length]

Renumber(L) == RenumberBy(L, SlotOrder(L))

\* ------------------------------------------------------------ LarouxCache
\* LarouxCache.__len__
CacheLen == length

\* A faulty test that lets the cache grow one past its capacity;
\* CapacityInvariant fails with it.
EvictNeededLate(len, max) == len > max + 1
\* LarouxCache._evict, its test: len(self) > self._max_size
EvictNeeded(len, max) == len > max

\* A faulty victim, the node behind the front one, while pop() still unlinks
\* the back one; EvictionCorrectness fails with it.
EvictVictimFront(L) == L.next[L.next[head]]
\* LarouxCache._evict, its victim: last = self._cache_list.head.prev
EvictVictim(L) == L.prev[head]

\* LarouxCache._evict on the cache state c = [hash, list, len].
Evict(c, max) ==
    IF EvictNeeded(c.len, max)
    THEN [hash |-> DictPop(c.hash, c.list.key[EvictVictim(c.list)]),
          list |-> ListPop(c.list),
          len  |-> c.len - 1]
    ELSE c

\* LarouxCache.push on the cache state: store in the dict, push a new node,
\* count it, evict.
PushResult(k, v) ==
    Evict([hash |-> DictSet(hash_table, k, v),
           list |-> ListPush(cache_list, k, v),
           len  |-> length + 1],
          max_size)

\* LarouxCache.__getitem__: the value it returns.
GetResult(k) == DictGet(hash_table, k)

\* LarouxCache.__getitem__: the list after the call.  A truthy result is
\* searched for by value, the node found is removed and a new node pushed.
GetList(k) ==
    LET retval == GetResult(k)
    IN  IF Truthy(retval)
        THEN ListPush(ListRemove(cache_list, ListFind(cache_list, retval, TRUE)),
                      k, retval)
        ELSE cache_list

\* LarouxCache.push, the pop of _evict: whether _hash_table.pop(last.key,
\* "oops") finds no such key and falls back on its default.
EvictMisses(k, v) ==
    LET hash1 == DictSet(hash_table, k, v)
        list1 == ListPush(cache_list, k, v)
    IN  /\ EvictNeeded(length + 1, max_size)
        /\ list1.key[EvictVictim(list1)] \notin DOMAIN hash1

\* A faulty push that links the node and counts it before the dict store
\* raises; UnhashableKeyChangesNothing fails with it.
RaisedStateLate(k, v) ==
    [hash |-> hash_table, list |-> ListPush(cache_list, k, v), len |-> length + 1]
\* LarouxCache.push with a key that cannot be hashed: the cache state when the
\* exception leaves push.  The test of line 73 raises ValueError, or else the
\* dict store of line 76 raises TypeError; nothing was changed before either.
RaisedState(k, v) ==
    [hash |-> hash_table, list |-> cache_list, len |-> length]

\* LarouxCache.peek
PeekResult == cache_list.value[ListPeek(cache_list)]

\* _ListNode.__str__: str(self.value).
StrOf(v) == IF v = None THEN "None" ELSE IF v = 0 THEN "0" ELSE "1"

\* LarouxCache.__str__: the strings of the nodes the iterator yields, front to
\* back (the list that str() then prints).
Display == [i \in 1..Len(ListNodes(cache_list)) |->
              StrOf(cache_list.value[ListNodes(cache_list)[i]])]

\* The record of a call: its name, arguments and result, for get and resize
\* the entries of the list when it was called, for resize the capacity before
\* it and the parity of the loop iterations run so far, for push whether it
\* raised and whether its eviction missed the key in the dict, for str the
\* strings produced.
Call(op, k, v, ret, pre, cap) ==
    [op |-> op, key |-> k, value |-> v, ret |-> ret, pre |-> pre, cap |-> cap,
     iter |-> 0, raised |-> FALSE, miss |-> FALSE, out |-> <<>>]

NoPuts == [ok |-> FALSE, seq |-> <<>>]

\* ------------------------------------------------------------------ Init
\* LarouxCache.__init__(max_size): no check on max_size.
Init ==
    /\ max_size \in 0..MaxCap
    /\ hash_table = <<>>
    /\ cache_list = EmptyList
    /\ length = 0
    /\ pc = "idle"
    /\ lastCall = Call("init", None, None, None, <<>>, None)
    /\ capOk = (max_size >= 1)
    /\ resized = FALSE
    /\ puts = [ok |-> TRUE, seq |-> <<>>]

\* --------------------------------------------------------------- actions
\* cache.push(k, v)
Put(k, v) ==
    /\ pc = "idle"
    /\ FreeSlots(cache_list) # {}
    /\ ListLen(cache_list) < MaxListLen
    /\ LET r == PushResult(k, v)
       IN  /\ hash_table' = r.hash
           /\ cache_list' = Renumber(r.list)
           /\ length' = r.len
    /\ lastCall' = [Call("put", k, v, None, <<>>, None)
                       EXCEPT !.miss = EvictMisses(k, v)]
    /\ puts' = IF puts.ok /\ \A i \in 1..Len(puts.seq) : puts.seq[i][1] # k
               THEN [ok |-> TRUE, seq |-> Append(puts.seq, <<k, v>>)]
               ELSE NoPuts
    /\ UNCHANGED <<max_size, pc, capOk, resized>>

\* cache[k]
Get(k) ==
    /\ pc = "idle"
    /\ \/ ~Truthy(GetResult(k))
       \/ ListFind(cache_list, GetResult(k), TRUE) # None
       \/ FreeSlots(cache_list) # {} /\ ListLen(cache_list) < MaxListLen
    /\ cache_list' = Renumber(GetList(k))
    /\ lastCall' = Call("get", k, None, GetResult(k), Entries(cache_list), None)
    /\ puts' = NoPuts
    /\ UNCHANGED <<max_size, hash_table, length, pc, capOk, resized>>

\* cache.peek()
Peek ==
    /\ pc = "idle"
    /\ lastCall' = Call("peek", None, None, PeekResult, <<>>, None)
    /\ UNCHANGED <<max_size, hash_table, cache_list, length, pc, capOk, resized,
                   puts>>

\* cache.push(k, v) with a key that cannot be hashed: an exception, raised
\* before anything is stored.
PutRaises(k, v) ==
    /\ pc = "idle"
    /\ ~(HasHashAttr(k) /\ Hashable(k))
    /\ LET r == RaisedState(k, v)
       IN  /\ hash_table' = r.hash
           /\ cache_list' = r.list
           /\ length' = r.len
    /\ lastCall' = [Call("put", k, None, None, Entries(cache_list), None)
                       EXCEPT !.raised = TRUE]
    /\ UNCHANGED <<max_size, pc, capOk, resized, puts>>

\* str(cache)
Str ==
    /\ pc = "idle"
    /\ lastCall' = [Call("str", None, None, None, <<>>, None)
                       EXCEPT !.out = Display]
    /\ UNCHANGED <<max_size, hash_table, cache_list, length, pc, capOk, resized,
                   puts>>

\* cache.resize(n): self._max_size = new_size, then the while loop.
Resize(n) ==
    /\ pc = "idle"
    /\ max_size' = n
    /\ pc' = "resize"
    /\ lastCall' = Call("resize", None, n, None, Entries(cache_list), max_size)
    /\ capOk' = (capOk /\ n >= 1)
    /\ resized' = TRUE
    /\ puts' = NoPuts
    /\ UNCHANGED <<hash_table, cache_list, length>>

\* One iteration of resize's loop: len(self._cache_list) > new_size, pop().
ResizeLoop ==
    /\ pc = "resize"
    /\ ListLen(cache_list) > max_size
    /\ \E popped \in {ListPop(cache_list)} :
           \E order \in {SlotOrder(popped)} :
               cache_list' = RenumberBy(popped, order)
    /\ lastCall' = [lastCall EXCEPT !.iter = 1 - @]
    /\ UNCHANGED <<max_size, hash_table, length, pc, capOk, resized, puts>>

\* The loop test fails: resize returns.
ResizeReturn ==
    /\ pc = "resize"
    /\ ~(ListLen(cache_list) > max_size)
    /\ pc' = "idle"
    /\ UNCHANGED <<max_size, hash_table, cache_list, length, lastCall, capOk,
                   resized, puts>>

Next ==
    \/ \E k \in Keys, v \in Values : Put(k, v)
    \/ \E v \in Values : PutRaises(ListKey, v)
    \/ \E k \in Keys : Get(k)
    \/ Peek
    \/ Str
    \/ \E n \in 0..MaxCap : Resize(n)
    \/ ResizeLoop
    \/ ResizeReturn

Spec == Init /\ [][Next]_vars

\* The interpreter keeps running a call that has started: an enabled step of
\* resize's loop is eventually taken.
LiveSpec == Spec /\ WF_vars(ResizeLoop) /\ WF_vars(ResizeReturn)

\* ================================================================ claims
\* Helpers of the statements below.
LinkedCount == Len(ListNodes(cache_list))
KeysOf(es) == {es[i][1] : i \in DOMAIN es}
CountKey(es, k) == Cardinality({i \in DOMAIN es : es[i][1] = k})
Min(a, b) == IF a <= b THEN a ELSE b

\* ---- C1 ----------------------------------------------------------------
\* C1. Capacity invariant: after every put, whatever was called before it and
\* whether its key is new or repeated, len() <= capacity.
CapacityInvariant ==
    (pc = "idle" /\ lastCall.op = "put") => CacheLen <= max_size

\* A put into a cache of capacity >= 1 that was already full of other keys.
CapacityInvariantWitness ==
    /\ lastCall.op = "put"
    /\ max_size >= 1
    /\ CacheLen = max_size
    /\ ListLen(cache_list) > max_size
    /\ puts.ok

\* ---- C2 ----------------------------------------------------------------
\* C2. Eviction correctness: after m puts of pairwise distinct keys and no
\* get, in a cache of capacity n >= 1, get returns a value exactly for the
\* last min(m, n) keys put, and for each of them the value put.
EvictionCorrectness ==
    (puts.ok /\ max_size >= 1) =>
        LET m    == Len(puts.seq)
            kept == SubSeq(puts.seq, m - Min(m, max_size) + 1, m)
        IN  /\ \A k \in Keys : (GetResult(k) # None) <=> (k \in KeysOf(kept))
            /\ \A i \in DOMAIN kept : GetResult(kept[i][1]) = kept[i][2]

\* n+1 distinct puts into a cache of capacity n: the first key is gone.
EvictionCorrectnessWitness ==
    /\ puts.ok
    /\ max_size >= 1
    /\ Len(puts.seq) = max_size + 1
    /\ GetResult(puts.seq[1][1]) = None
    /\ GetResult(puts.seq[2][1]) = puts.seq[2][2]

\* ---- C3 ----------------------------------------------------------------
\* The latest call was get(k) on a present key k of a full cache of capacity
\* >= 2 whose list held one node per stored key (get changes neither the
\* dict nor len(), so both are as they were before the get).
AfterGetOnFullCache ==
    /\ pc = "idle"
    /\ lastCall.op = "get"
    /\ capOk
    /\ max_size >= 2
    /\ CacheLen = max_size
    /\ lastCall.key \in DOMAIN hash_table
    /\ Len(lastCall.pre) = CacheLen
    /\ KeysOf(lastCall.pre) = DOMAIN hash_table
    /\ Cardinality(DOMAIN hash_table) = CacheLen
    /\ \A i \in DOMAIN lastCall.pre :
           hash_table[lastCall.pre[i][1]] = lastCall.pre[i][2]

\* The least recently used key other than k in the entries es (front first).
LruOther(es, k) ==
    LET i == CHOOSE j \in DOMAIN es :
                 /\ es[j][1] # k
                 /\ \A h \in DOMAIN es : (h > j) => es[h][1] = k
    IN  es[i][1]

\* C3. Access-based protection: in a full cache of capacity >= 2, after
\* get(k) on a present key, the next put of a new key evicts the least
\* recently used key other than k, and k keeps its value.
ProtectedByGet ==
    [][(AfterGetOnFullCache /\ lastCall'.op = "put" /\ ~lastCall'.raised
            /\ lastCall'.key \notin DOMAIN hash_table)
        => /\ lastCall.key \in DOMAIN hash_table'
           /\ hash_table'[lastCall.key] = hash_table[lastCall.key]
           /\ (DOMAIN hash_table) \ (DOMAIN hash_table')
                  = {LruOther(lastCall.pre, lastCall.key)}]_vars

\* ---- C4 ----------------------------------------------------------------
\* C4. Idempotent overwrite: put(k, v2) on a present key k leaves len()
\* unchanged, makes get(k) return v2 and leaves exactly one node with key k.
IdempotentOverwrite ==
    [][(pc = "idle" /\ lastCall'.op = "put" /\ capOk
            /\ lastCall'.key \in DOMAIN hash_table)
        => /\ CacheLen' = CacheLen
           /\ DictGet(hash_table', lastCall'.key) = lastCall'.value
           /\ CountKey(Entries(cache_list'), lastCall'.key) = 1]_vars

\* ---- C5 ----------------------------------------------------------------
\* C5. get promotes: after get(k) on a present key (whatever its value), the
\* front entry of the list has key k and peek() returns what get(k) returned.
GetPromotes ==
    (pc = "idle" /\ capOk /\ lastCall.op = "get"
         /\ lastCall.key \in DOMAIN hash_table)
        => /\ cache_list.key[ListPeek(cache_list)] = lastCall.key
           /\ PeekResult = lastCall.ret

ResizeFromConsistent ==
    /\ lastCall.op = "resize"
    /\ capOk
    /\ Len(lastCall.pre) = CacheLen
    /\ Cardinality(KeysOf(lastCall.pre)) = CacheLen
    /\ KeysOf(lastCall.pre) = DOMAIN hash_table

\* ---- C7 ----------------------------------------------------------------
\* C7. Every call of resize(new_capacity) with new_capacity >= 1, on a cache
\* of capacity >= 1, returns.
ResizeTerminates ==
    (pc = "resize" /\ ResizeFromConsistent) ~> (pc = "idle")

\* ---- C8 ----------------------------------------------------------------
\* resize(m) was called with 1 <= m < len() and has not returned (the loop
\* changes neither len() nor the recorded call).
ShrinkCalled ==
    /\ pc = "resize"
    /\ ResizeFromConsistent
    /\ max_size < CacheLen

\* resize(m) has returned: len() = capacity = m, the entries are the m most
\* recently used ones of before in their order, the others' keys are gone.
ShrinkDone ==
    /\ pc = "idle"
    /\ lastCall.op = "resize"
    /\ max_size = lastCall.value
    /\ CacheLen = max_size
    /\ Entries(cache_list) = SubSeq(lastCall.pre, 1, max_size)
    /\ \A i \in DOMAIN lastCall.pre :
           (i > max_size /\ lastCall.pre[i][1] \notin KeysOf(Entries(cache_list)))
               => GetResult(lastCall.pre[i][1]) = None

\* C8. Resize shrink: resize(m) with 1 <= m < len() ends with len() = m, the
\* capacity m, the m most recently used entries kept in order and the
\* evicted keys no longer retrievable.
ResizeShrinks == ShrinkCalled ~> ShrinkDone

\* ---- C9 ----------------------------------------------------------------
\* C9. Resize grow: resize(m) with m > c on a cache at capacity c >= 1
\* (len() = c) removes no entry and changes no recency order.
ResizeGrowKeepsEntries ==
    (ResizeFromConsistent /\ CacheLen = lastCall.cap /\ max_size > lastCall.cap)
        => Entries(cache_list) = lastCall.pre

\* ---- C10 ---------------------------------------------------------------
\* C10. Length consistency: between calls, len() equals the number of nodes
\* linked in the list, the list's own length counter and the number of keys
\* in the index.
LengthConsistency ==
    (pc = "idle" /\ capOk)
        => /\ CacheLen = LinkedCount
           /\ CacheLen = ListLen(cache_list)
           /\ CacheLen = Cardinality(DOMAIN hash_table)

\* ---- C11 ---------------------------------------------------------------
\* C11. Display: the sequence str(cache) produces has exactly len() elements
\* and lists, from the front of the list to its back, the values of the live
\* keys, one element per key.
DisplayShowsLiveEntries ==
    (pc = "idle" /\ capOk /\ lastCall.op = "str")
        => LET es == Entries(cache_list)
           IN  /\ Len(lastCall.out) = CacheLen
               /\ Len(lastCall.out) = Cardinality(DOMAIN hash_table)
               /\ KeysOf(es) = DOMAIN hash_table
               /\ \A i \in DOMAIN es :
                      /\ i \in DOMAIN lastCall.out
                      /\ es[i][1] \in DOMAIN hash_table
                      /\ lastCall.out[i] = StrOf(hash_table[es[i][1]])

\* ---- C12 ---------------------------------------------------------------
\* C12. A get of a key that is not in the index returns None and changes
\* neither the list, the index, len() nor the capacity.
AbsentGetNoEffect ==
    [][(lastCall'.op = "get" /\ lastCall'.key \notin DOMAIN hash_table)
          => /\ lastCall'.ret = None
             /\ UNCHANGED <<cache_list, hash_table, length, max_size>>]_vars

\* A get of an absent key on a cache that holds two nodes or more.
AbsentGetNoEffectWitness ==
    /\ pc = "idle"
    /\ lastCall.op = "get"
    /\ lastCall.key \notin DOMAIN hash_table
    /\ lastCall.ret = None
    /\ LinkedCount >= 2
    /\ Entries(cache_list) = lastCall.pre

\* ---- C13 ---------------------------------------------------------------
\* C13. Falsy values: a get of a key whose stored value is falsy returns that
\* value, which differs from the result of a miss, and handles the key as a
\* present one, so its node is at the front afterwards.
FalsyValuePresent ==
    (pc = "idle" /\ capOk /\ lastCall.op = "get"
       /\ lastCall.key \in DOMAIN hash_table
       /\ ~Truthy(hash_table[lastCall.key]))
        => /\ lastCall.ret = hash_table[lastCall.key]
           /\ lastCall.ret # None
           /\ cache_list.key[ListPeek(cache_list)] = lastCall.key

\* ---- C14 ---------------------------------------------------------------
\* C14. Invalid configuration: a capacity below 1 is refused by the
\* constructor and by resize, so the capacity is >= 1 in every state.
CapacityAtLeastOne == max_size >= 1

\* ---- C15 ---------------------------------------------------------------
\* C15. Invalid key: a put whose key cannot be hashed raises at that call and
\* leaves the index, the list, len() and the capacity as they were.
UnhashableKeyChangesNothing ==
    [][(lastCall'.op = "put" /\ ~Hashable(lastCall'.key))
          => /\ lastCall'.raised
             /\ UNCHANGED <<hash_table, cache_list, length, max_size>>]_vars

\* A put with an unhashable key has raised on a cache that holds entries.
UnhashableKeyWitness ==
    /\ lastCall.op = "put"
    /\ lastCall.key = ListKey
    /\ lastCall.raised
    /\ LinkedCount >= 1
    /\ DOMAIN hash_table # {}

\* ---- C16 ---------------------------------------------------------------
\* C16. Index/list agreement: between calls a key is in the index exactly
\* when a node with that key is linked in the list.
IndexListAgreement ==
    (pc = "idle" /\ capOk) => DOMAIN hash_table = KeysOf(Entries(cache_list))

\* ---- C17 ---------------------------------------------------------------
\* How often the entry e occurs in the sequence of entries es.
CountEntry(es, e) == Cardinality({i \in DOMAIN es : es[i] = e})

\* C17. A get of a present key only reorders: the list holds the same
\* multiset of (key, value) entries after it as before it.
GetOnlyReorders ==
    (pc = "idle" /\ capOk /\ lastCall.op = "get"
       /\ lastCall.key \in DOMAIN hash_table)
        => \A k \in Keys, v \in Values :
               CountEntry(Entries(cache_list), <<k, v>>)
                   = CountEntry(lastCall.pre, <<k, v>>)

\* ---- C18 ---------------------------------------------------------------
\* C18. Whenever the eviction of a put removes the back node, the index
\* holds that node's key at that moment: the pop never misses.
EvictionFindsKey ==
    (pc = "idle" /\ capOk /\ lastCall.op = "put" /\ ~lastCall.raised)
        => ~lastCall.miss

\* ---- C19 ---------------------------------------------------------------
\* C19. Recency-list well-formedness: for the sentinel and every linked node
\* n, n.prev.next = n and n.next.prev = n; the sentinel stays the list's head
\* and find never returns it.
ListWellFormed ==
    /\ \A i \in DOMAIN ListNodes(cache_list) : ListNodes(cache_list)[i] # head
    /\ \A n \in {head} \cup Range(ListNodes(cache_list)) :
           /\ cache_list.prev[n] \in Nodes
           /\ cache_list.next[n] \in Nodes
           /\ cache_list.next[cache_list.prev[n]] = n
           /\ cache_list.prev[cache_list.next[n]] = n
    /\ cache_list.key[head] = None /\ cache_list.value[head] = None
    /\ \A needle \in Keys \cup Values \cup {None}, value_search \in BOOLEAN :
           ListFind(cache_list, needle, value_search) # head

\* A get has unlinked a node and pushed one, on a list of two nodes or more
\* from whose back an eviction has popped a node before.
ListWellFormedWitness ==
    /\ pc = "idle"
    /\ lastCall.op = "get"
    /\ Truthy(lastCall.ret)
    /\ Entries(cache_list) # lastCall.pre
    /\ LinkedCount >= 2
    /\ ListLen(cache_list) > LinkedCount

\* ---- C20 ---------------------------------------------------------------
\* C20. Bounded storage: in a cache of capacity c >= 1, after puts and gets
\* only, the list links at most c nodes and the index holds at most c keys.
BoundedStorage ==
    (pc = "idle" /\ capOk /\ ~resized)
        => /\ LinkedCount <= max_size
           /\ Cardinality(DOMAIN hash_table) <= max_size

====
